---- MODULE Spec2Model ----
(***************************************************************************)
(* AI-SEO-Buddy: the content analyzer (app/analyzer.py), the               *)
(* recommendation generator (app/recommendations.py), the /analyze and     *)
(* /status handlers (app/main.py) and the polling client                   *)
(* (streamlit-app.py).                                                     *)
(*                                                                         *)
(* Representation.  A Python str is a sequence of one-character strings.   *)
(* An Optional value is a sequence of length at most one (<<>> is None).   *)
(* A dict is a record; a dict whose keys are data (analysis["keywords"])   *)
(* is the sequence of its items in insertion order.  A float that the      *)
(* code rounds to two decimals (density) is the integer number of          *)
(* hundredths; an audit score is the integer number of tenths.             *)
(***************************************************************************)
EXTENDS Integers, Sequences, FiniteSets, TLC

VARIABLES
    phase,            \* position of the pure pipeline: "input", "analysed", "done"
    content,          \* the page snapshot handed to analyze_content
    keywords,         \* Optional[List[str]] handed to analyze_content
    lighthouse,       \* the audit scores handed to generate_recommendations
    analysis,         \* the analysis handed to generate_recommendations
    recommendations,  \* the result of generate_recommendations
    now,              \* the wall clock, in ticks
    files,            \* data/task_<id>.json: task id -> Optional record
    handler,          \* per request: the analyze_url coroutine
    client            \* per request: the analyze_website coroutine

vars == <<phase, content, keywords, lighthouse, analysis, recommendations,
          now, files, handler, client>>

pureVars == <<phase, content, keywords, lighthouse, analysis, recommendations>>
serverVars == <<now, files, handler, client>>

------------------------------------------------------------------------------
(* Bounds *)

MaxKeywords == 2
MaxLinks == 2
MaxRequests == 2
MaxClock == 3
TicksPerSecond == 2

------------------------------------------------------------------------------
(* Python str as sequences of characters *)

None == <<>>
Some(x) == <<x>>

UpperCase == <<"A","B","C","D","E","F","G","H","I","J","K","L","M",
               "N","O","P","Q","R","S","T","U","V","W","X","Y","Z">>
LowerCase == <<"a","b","c","d","e","f","g","h","i","j","k","l","m",
               "n","o","p","q","r","s","t","u","v","w","x","y","z">>
Digits == {"0","1","2","3","4","5","6","7","8","9"}

Range(s) == {s[i] : i \in DOMAIN s}

\* str.lower() on one character
LowerChar(c) ==
    IF \E i \in DOMAIN UpperCase : UpperCase[i] = c
    THEN LowerCase[CHOOSE i \in DOMAIN UpperCase : UpperCase[i] = c]
    ELSE c

\* str.lower()
lower(s) == [i \in DOMAIN s |-> LowerChar(s[i])]

\* the regex class \w
IsWordChar(c) == c \in Range(LowerCase) \cup Range(UpperCase) \cup Digits \cup {"_"}

\* sub occurs in s at position i (1-based)
MatchAt(s, sub, i) ==
    /\ i + Len(sub) - 1 <= Len(s)
    /\ \A j \in 1..Len(sub) : s[i + j - 1] = sub[j]

\* str.startswith(prefix)
startswith(s, prefix) == MatchAt(s, prefix, 1)

\* the operator "sub in s" on str
contains(s, sub) == \E i \in 1..(Len(s) + 1) : MatchAt(s, sub, i)

\* the positions at which sub occurs in s
Matches(s, sub) == {i \in 1..(Len(s) + 1) : MatchAt(s, sub, i)}

\* the occurrences str.count takes among the positions M, scanning from the
\* left from position i: the first one, then those after its end
RECURSIVE CountFrom(_, _, _)
CountFrom(M, n, i) ==
    LET rest == {m \in M : m >= i}
        first == CHOOSE m \in rest : \A k \in rest : m <= k
    IN  IF rest = {} THEN 0 ELSE 1 + CountFrom(M, n, first + n)

\* str.count(sub): non-overlapping occurrences; the empty string occurs
\* len(s) + 1 times
count(s, sub) ==
    IF Len(sub) = 0 THEN Len(s) + 1 ELSE CountFrom(Matches(s, sub), Len(sub), 1)

\* len(re.findall(r'\b\w+\b', s)): the number of maximal runs of \w characters
WordCount(s) ==
    Cardinality({i \in DOMAIN s :
        IsWordChar(s[i]) /\ (i = 1 \/ ~IsWordChar(s[i - 1]))})

\* round() to the nearest integer of num / den, ties to even (num >= 0, den > 0)
RoundHalfEven(num, den) ==
    LET q == num \div den
        r == num % den
    IN  IF 2 * r > den \/ (2 * r = den /\ q % 2 = 1) THEN q + 1 ELSE q

\* round(exact_matches / word_count * 100, 2), in hundredths
Density(exact_matches, word_count) ==
    IF word_count > 0 THEN RoundHalfEven(exact_matches * 10000, word_count) ELSE 0

\* "{:.0f}".format(score) for a score given in tenths
Format0f(score) == RoundHalfEven(score, 10)

\* a score of w whole points and t tenths
Score(w, t) == w * 10 + t

\* s repeated n times (the str operator s * n)
Rep(s, n) == [i \in 1..(n * Len(s)) |-> s[((i - 1) % Len(s)) + 1]]

------------------------------------------------------------------------------
(* app/recommendations.py *)

\* A recommendation string: its template, and the keyword and the number
\* substituted into it (<<>> and 0 where the template has no such field).
Msg(template, keyword, value) ==
    [template |-> template, keyword |-> keyword, value |-> value]

Plain(template) == Msg(template, <<>>, 0)

\* recommendations[bucket].append(msg)
append(recs, bucket, msg) == [recs EXCEPT ![bucket] = Append(@, msg)]

EmptyRecommendations == [critical |-> <<>>, important |-> <<>>, minor |-> <<>>]

\* TitleRule with the elif written as a second if
TitleRule_SecondIf(recs, a) ==
    LET r1 == IF ~a.title.has_title
              THEN append(recs, "critical", Plain("Add a title tag to your page"))
              ELSE recs
    IN  IF ~a.title.optimal_length
        THEN append(r1, "important", Plain("Adjust title length to be between 50-60 characters for optimal display in search results"))
        ELSE r1

TitleRule(recs, a) ==
    IF ~a.title.has_title
    THEN append(recs, "critical", Plain("Add a title tag to your page"))
    ELSE IF ~a.title.optimal_length
    THEN append(recs, "important", Plain("Adjust title length to be between 50-60 characters for optimal display in search results"))
    ELSE recs

MetaRule(recs, a) ==
    IF ~a.meta_description.has_meta
    THEN append(recs, "critical", Plain("Add a meta description to your page"))
    ELSE IF ~a.meta_description.optimal_length
    THEN append(recs, "important", Plain("Adjust meta description length to be between 150-160 characters for optimal display"))
    ELSE recs

HeadingRule(recs, a) ==
    IF ~a.headings.has_proper_structure
    THEN IF a.headings.h1_count = 0
         THEN append(recs, "critical", Plain("Add an H1 heading to your page"))
         ELSE IF a.headings.h1_count > 1
         THEN append(recs, "important", Plain("Use only one H1 heading per page"))
         ELSE recs
    ELSE recs

ContentRule(recs, a) ==
    IF ~a.content.has_sufficient_content
    THEN append(recs, "important", Plain("Add more content to your page (aim for at least 300 words)"))
    ELSE recs

\* the first if of the loop body: the keyword is in no title, meta or heading
KeywordAbsentRule(recs, keyword, data) ==
    IF ~data.in_title /\ ~data.in_meta /\ ~data.in_headings
    THEN append(recs, "important", Msg("Include the keyword '{keyword}' in your title, meta description, or headings", keyword, 0))
    ELSE recs

\* the if / elif on the density, 0.5 and 3 in hundredths
KeywordDensityRule(recs, keyword, data) ==
    IF data.density < 50
    THEN append(recs, "minor", Msg("Consider increasing the usage of keyword '{keyword}' (current density: {density}%)", keyword, data.density))
    ELSE IF data.density > 300
    THEN append(recs, "important", Msg("Reduce the usage of keyword '{keyword}' to avoid keyword stuffing (current density: {density}%)", keyword, data.density))
    ELSE recs

\* KeywordLoop with the density check made an elif of the absence check
RECURSIVE KeywordLoop_Elif(_, _, _)
KeywordLoop_Elif(recs, items, i) ==
    IF i > Len(items) THEN recs
    ELSE KeywordLoop_Elif(
            IF KeywordAbsentRule(recs, items[i].keyword, items[i].data) # recs
            THEN KeywordAbsentRule(recs, items[i].keyword, items[i].data)
            ELSE KeywordDensityRule(recs, items[i].keyword, items[i].data),
            items, i + 1)

\* for keyword, data in analysis["keywords"].items(), from item i on
RECURSIVE KeywordLoop(_, _, _)
KeywordLoop(recs, items, i) ==
    IF i > Len(items) THEN recs
    ELSE KeywordLoop(
            KeywordDensityRule(
                KeywordAbsentRule(recs, items[i].keyword, items[i].data),
                items[i].keyword, items[i].data),
            items, i + 1)

KeywordRule(recs, a) ==
    IF "keywords" \in DOMAIN a THEN KeywordLoop(recs, a.keywords, 1) ELSE recs

ImageRule(recs, a) ==
    IF a.images.missing_alt_count > 0
    THEN append(recs, "important", Msg("Add alt text to {missing_alt_count} images", <<>>, a.images.missing_alt_count))
    ELSE recs

LinkRule(recs, a) ==
    LET r1 == IF a.links.internal_count = 0
              THEN append(recs, "minor", Plain("Add internal links to improve site navigation"))
              ELSE recs
    IN  IF a.links.external_count = 0
        THEN append(r1, "minor", Plain("Consider adding relevant external links"))
        ELSE r1

\* PerformanceRule with <= for the first <
PerformanceRule_OffByOne(recs, lh) ==
    IF lh.performance <= 900
    THEN append(recs, "critical", Msg("Improve page performance (current score: {:.0f}/100)", <<>>, Format0f(lh.performance)))
    ELSE IF lh.performance < 950
    THEN append(recs, "important", Msg("Consider optimizing page performance (current score: {:.0f}/100)", <<>>, Format0f(lh.performance)))
    ELSE recs

\* scores are in tenths: 90 is 900, 95 is 950
PerformanceRule(recs, lh) ==
    IF lh.performance < 900
    THEN append(recs, "critical", Msg("Improve page performance (current score: {:.0f}/100)", <<>>, Format0f(lh.performance)))
    ELSE IF lh.performance < 950
    THEN append(recs, "important", Msg("Consider optimizing page performance (current score: {:.0f}/100)", <<>>, Format0f(lh.performance)))
    ELSE recs

SeoRule(recs, lh) ==
    IF lh.seo < 900
    THEN append(recs, "important", Msg("Address technical SEO issues (current score: {:.0f}/100)", <<>>, Format0f(lh.seo)))
    ELSE recs

AccessibilityRule(recs, lh) ==
    IF lh.accessibility < 900
    THEN append(recs, "important", Msg("Improve accessibility (current score: {:.0f}/100)", <<>>, Format0f(lh.accessibility)))
    ELSE recs

\* generate_recommendations with the image rule moved before the keyword loop
generate_recommendations_ImagesFirst(a, lh) ==
    LET r1 == TitleRule(EmptyRecommendations, a)
        r2 == MetaRule(r1, a)
        r3 == HeadingRule(r2, a)
        r4 == ContentRule(r3, a)
        r5 == ImageRule(r4, a)
        r6 == KeywordRule(r5, a)
        r7 == LinkRule(r6, a)
        r8 == PerformanceRule(r7, lh)
        r9 == SeoRule(r8, lh)
    IN  AccessibilityRule(r9, lh)

generate_recommendations(a, lh) ==
    LET r1 == TitleRule(EmptyRecommendations, a)
        r2 == MetaRule(r1, a)
        r3 == HeadingRule(r2, a)
        r4 == ContentRule(r3, a)
        r5 == KeywordRule(r4, a)
        r6 == ImageRule(r5, a)
        r7 == LinkRule(r6, a)
        r8 == PerformanceRule(r7, lh)
        r9 == SeoRule(r8, lh)
    IN  AccessibilityRule(r9, lh)

------------------------------------------------------------------------------
(* app/analyzer.py *)

\* bool(x) of a str or a list
bool(x) == Len(x) > 0

\* TitleAnalysis with 50 < len(title) for 50 <= len(title)
TitleAnalysis_StrictLower(title) ==
    [length |-> Len(title),
     has_title |-> bool(title),
     optimal_length |-> IF bool(title) THEN 50 < Len(title) /\ Len(title) <= 60 ELSE FALSE]

TitleAnalysis(title) ==
    [length |-> Len(title),
     has_title |-> bool(title),
     optimal_length |-> IF bool(title) THEN 50 <= Len(title) /\ Len(title) <= 60 ELSE FALSE]

MetaAnalysis(meta_desc) ==
    [length |-> Len(meta_desc),
     has_meta |-> bool(meta_desc),
     optimal_length |-> IF bool(meta_desc) THEN 150 <= Len(meta_desc) /\ Len(meta_desc) <= 160 ELSE FALSE]

HeadingsAnalysis(headings) ==
    [h1_count |-> Len(headings.h1),
     h2_count |-> Len(headings.h2),
     h3_count |-> Len(headings.h3),
     has_proper_structure |-> Len(headings.h1) = 1]

ContentAnalysis(text) ==
    [word_count |-> WordCount(lower(text)),
     has_sufficient_content |-> WordCount(lower(text)) >= 300]

\* the value stored under keyword_analysis[keyword]
KeywordData(c, keyword) ==
    LET keyword_lower == lower(keyword)
        exact_matches == count(lower(c.content), keyword_lower)
        word_count    == WordCount(lower(c.content))
    IN  [count |-> exact_matches,
         density |-> Density(exact_matches, word_count),
         in_title |-> contains(lower(c.title), keyword_lower),
         in_meta |-> contains(lower(c.meta_description), keyword_lower),
         in_headings |-> \E level \in DOMAIN c.headings :
                            \E i \in DOMAIN c.headings[level] :
                                contains(lower(c.headings[level][i]), keyword_lower)]

\* keyword_analysis[keyword] = ...: a new key goes to the end of the dict,
\* an existing key keeps its place and takes the new value
DictSet(items, keyword, data) ==
    IF \E i \in DOMAIN items : items[i].keyword = keyword
    THEN [i \in DOMAIN items |->
            IF items[i].keyword = keyword THEN [keyword |-> keyword, data |-> data]
            ELSE items[i]]
    ELSE Append(items, [keyword |-> keyword, data |-> data])

\* KeywordAnalysis with keyword_lower as the key of keyword_analysis
RECURSIVE KeywordAnalysis_LowerKey(_, _, _, _)
KeywordAnalysis_LowerKey(items, c, kws, i) ==
    IF i > Len(kws) THEN items
    ELSE KeywordAnalysis_LowerKey(
            DictSet(items, lower(kws[i]), KeywordData(c, kws[i])), c, kws, i + 1)

\* for keyword in keywords, from keyword i on
RECURSIVE KeywordAnalysis(_, _, _, _)
KeywordAnalysis(items, c, kws, i) ==
    IF i > Len(kws) THEN items
    ELSE KeywordAnalysis(DictSet(items, kws[i], KeywordData(c, kws[i])), c, kws, i + 1)

IsInternal(link, url) == startswith(link.href, <<"/">>) \/ startswith(link.href, url)

IsExternal(link) ==
    startswith(link.href, <<"h","t","t","p">>) \/ startswith(link.href, <<"h","t","t","p","s">>)

\* LinkAnalysis counting distinct hrefs instead of entries
LinkAnalysis_Dedup(c) ==
    [internal_count |-> Cardinality({c.links[i].href : i \in {j \in DOMAIN c.links : IsInternal(c.links[j], c.url)}}),
     external_count |-> Cardinality({c.links[i].href : i \in {j \in DOMAIN c.links : IsExternal(c.links[j])}}),
     total_count |-> Cardinality({c.links[i].href : i \in DOMAIN c.links})]

LinkAnalysis(c) ==
    [internal_count |-> Cardinality({i \in DOMAIN c.links : IsInternal(c.links[i], c.url)}),
     external_count |-> Cardinality({i \in DOMAIN c.links : IsExternal(c.links[i])}),
     total_count |-> Len(c.links)]

ImageAnalysis(images) ==
    [total_count |-> Len(images),
     missing_alt_count |-> Cardinality({i \in DOMAIN images : ~bool(images[i].alt)})]

\* kws is the Optional[List[str]]; "if keywords:" is false for None and for []
analyze_content(c, kws) ==
    LET base == [title |-> TitleAnalysis(c.title),
                 meta_description |-> MetaAnalysis(c.meta_description),
                 headings |-> HeadingsAnalysis(c.headings),
                 content |-> ContentAnalysis(c.content),
                 links |-> LinkAnalysis(c),
                 images |-> ImageAnalysis(c.images)]
    IN  IF kws # None /\ bool(kws[1])
        THEN base @@ [keywords |-> KeywordAnalysis(<<>>, c, kws[1], 1)]
        ELSE base

------------------------------------------------------------------------------
(* Inputs of the pipeline: page snapshots as app/scraper.py returns them,   *)
(* keyword lists as the client sends them, audit scores in tenths.          *)

Str_seo == <<"s","e","o">>
Str_SEO == <<"S","E","O">>
Str_ai == <<"a","i">>
Str_zz == <<"z","z">>
Str_x == <<"x">>

KeywordPool == {Str_seo, Str_SEO, Str_ai, Str_zz}

\* s followed by x's, up to length n
Pad(s, n) == s \o Rep(Str_x, n - Len(s))

\* a body text of nSeo words "Seo", nAi words "ai" and nOther words "b"
Text(nSeo, nAi, nOther) ==
    Rep(<<"S","e","o"," ">>, nSeo) \o Rep(<<"a","i"," ">>, nAi) \o Rep(<<"b"," ">>, nOther)

UrlX == <<"h","t","t","p",":","/","/","x",".","i","o">>
UrlY == <<"h","t","t","p","s",":","/","/","y",".","i","o">>

HrefPool ==
    {<<"/","a">>,                 \* site-relative
     UrlX \o <<"/","a">>,         \* absolute, under the page url UrlX
     UrlY,                        \* absolute, the page url UrlY itself
     <<"#","t","o","p">>,         \* a fragment
     <<"x",".","i","o","/","b">>} \* a relative path

SeqsUpTo(S, n) == UNION {[1..k -> S] : k \in 0..n}

Link(href) == [href |-> href, text |-> Str_x]

LinkLists == {[i \in DOMAIN hs |-> Link(hs[i])] : hs \in SeqsUpTo(HrefPool, MaxLinks)}

Image(alt) == [src |-> <<"/","i">>, alt |-> alt]

ImageLists == {<<>>, <<Image(Str_x)>>, <<Image(<<>>), Image(Str_x), Image(<<>>)>>}

\* None, [] and the lists of at most MaxKeywords keywords, repeats included
KeywordInputs == {None} \cup {Some(l) : l \in SeqsUpTo(KeywordPool, MaxKeywords)}

Titles == {<<>>, <<"H","i">>} \cup {Pad(<<"S","e","o"," ">>, n) : n \in {49, 50, 60, 61}}

Metas == {<<>>} \cup {Pad(<<"A","I"," ">>, n) : n \in {149, 150, 160, 161}}

HeadingSets ==
    {[h1 |-> <<>>, h2 |-> <<>>, h3 |-> <<>>],
     [h1 |-> <<Str_x>>, h2 |-> <<Str_x, Str_SEO>>, h3 |-> <<>>],
     [h1 |-> <<Str_x, Str_x>>, h2 |-> <<>>, h3 |-> <<Str_ai>>]}

\* word counts 200 and 400 with densities 0, 0.25, 0.5, 3.0, 3.25 and 3.5,
\* the texts of the examples, and the word counts 299 and 300
Texts ==
    {<<>>, Text(3, 0, 0), Text(1, 1, 1),
     Text(1, 0, 199), Text(6, 1, 193), Text(7, 6, 187),
     Text(1, 2, 397), Text(2, 13, 385), Text(12, 1, 387), Text(13, 12, 375),
     Text(1, 0, 298), Text(1, 0, 299)}

Scores(p, s, a) == [performance |-> p, seo |-> s, accessibility |-> a, best_practices |-> Score(100, 0)]

PerformanceCases ==
    {Score(0, 0), Score(50, 0), Score(89, 4), Score(89, 5), Score(89, 9), Score(90, 0),
     Score(94, 5), Score(94, 9), Score(95, 0), Score(100, 0)}

GoodScores == Scores(Score(100, 0), Score(100, 0), Score(100, 0))
BadScores == Scores(Score(50, 0), Score(50, 0), Score(50, 0))

BasePage ==
    [url |-> UrlX,
     title |-> Pad(<<"S","e","o"," ">>, 55),
     meta_description |-> Pad(<<"A","I"," ">>, 155),
     headings |-> [h1 |-> <<Str_x>>, h2 |-> <<>>, h3 |-> <<>>],
     content |-> Text(2, 13, 385),
     links |-> <<Link(<<"/","a">>), Link(UrlY)>>,
     images |-> <<>>]

Input(c, kws, lh) == [content |-> c, keywords |-> kws, lighthouse |-> lh]

\* every title length against every meta description length
LengthInputs ==
    {Input([BasePage EXCEPT !.title = t, !.meta_description = m], kws, GoodScores) :
        t \in Titles, m \in Metas, kws \in {None, Some(<<Str_seo, Str_ai>>)}}

\* every keyword list against every text, with and without the keywords in
\* the title, the meta description and the headings
KeywordsInputs ==
    {Input([BasePage EXCEPT !.content = x, !.title = t[1], !.meta_description = t[2], !.headings = t[3]],
           kws, GoodScores) :
        x \in Texts, kws \in KeywordInputs,
        t \in {<<BasePage.title, BasePage.meta_description, BasePage.headings>>,
               <<Str_x, Str_x, [h1 |-> <<Str_x>>, h2 |-> <<>>, h3 |-> <<>>]>>,
               <<Str_x, Str_x, [h1 |-> <<Str_x>>, h2 |-> <<>>, h3 |-> <<Str_seo>>]>>}}

\* every list of links under both page urls
LinkInputs ==
    {Input([BasePage EXCEPT !.url = u, !.links = ls, !.images = im], None, GoodScores) :
        u \in {UrlX, UrlY}, ls \in LinkLists, im \in ImageLists}

\* every performance score
ScoreInputs ==
    {Input([BasePage EXCEPT !.title = t], None, Scores(p, s, a)) :
        t \in {<<>>, BasePage.title}, p \in PerformanceCases,
        s \in {Score(89, 9), Score(90, 0)}, a \in {Score(89, 9), Score(90, 0)}}

\* the rules against each other
RuleInputs ==
    {Input([url |-> UrlX, title |-> t, meta_description |-> m, headings |-> h,
            content |-> x, links |-> ls, images |-> im], kws, lh) :
        t \in {<<>>, <<"H","i">>, BasePage.title},
        m \in {<<>>, BasePage.meta_description},
        h \in HeadingSets,
        x \in {Text(3, 0, 0), Text(13, 12, 375)},
        ls \in {<<>>, <<Link(UrlX)>>, <<Link(<<"/","a">>)>>},
        im \in {<<>>, <<Image(<<>>)>>},
        kws \in {None, Some(<<Str_seo, Str_zz>>), Some(<<Str_zz, Str_ai>>)},
        lh \in {GoodScores, BadScores, Scores(Score(92, 0), Score(50, 0), Score(100, 0))}}

Inputs == LengthInputs \cup KeywordsInputs \cup LinkInputs \cup ScoreInputs \cup RuleInputs

------------------------------------------------------------------------------
(* The pipeline of analyze_url, without its I/O: main.py lines 48 and 54 *)

NoAnalysis == <<>>

Requests == 1..MaxRequests

\* str(int(datetime.now().timestamp())) at clock t: the whole seconds
TaskId(t) == t \div TicksPerSecond

TaskIds == 0..TaskId(MaxClock)

IdleHandler ==
    [pc |-> "idle", request |-> None, task_id |-> None, task_data |-> None,
     analysis_results |-> None, status_code |-> 0]

IdleClient == [pc |-> "start", task_id |-> None, results |-> None]

\* no request made yet: an empty data directory
ServerIdle ==
    /\ now = 0
    /\ files = [t \in TaskIds |-> None]
    /\ handler = [r \in Requests |-> IdleHandler]
    /\ client = [r \in Requests |-> IdleClient]

Init ==
    /\ phase = "input"
    /\ \E inp \in Inputs :
        /\ content = inp.content
        /\ keywords = inp.keywords
        /\ lighthouse = inp.lighthouse
    /\ analysis = NoAnalysis
    /\ recommendations = EmptyRecommendations
    /\ ServerIdle

\* analysis_results = analyze_content(content, request.keywords)
Analyze ==
    /\ phase = "input"
    /\ analysis' = analyze_content(content, keywords)
    /\ phase' = "analysed"
    /\ UNCHANGED <<content, keywords, lighthouse, recommendations, serverVars>>

\* recommendations = generate_recommendations(analysis_results, lighthouse_results)
Recommend ==
    /\ phase = "analysed"
    /\ recommendations' = generate_recommendations(analysis, lighthouse)
    /\ phase' = "done"
    /\ UNCHANGED <<content, keywords, lighthouse, analysis, serverVars>>

Next == Analyze \/ Recommend

Spec == Init /\ [][Next]_vars

------------------------------------------------------------------------------
(* app/main.py and the client of streamlit-app.py.  A handler is a          *)
(* coroutine on one event loop: it runs without interruption from one       *)
(* await to the next, so each action below is the code between two awaits.  *)

\* what scrape_url returns for a url whose fetch and parse succeed
scrape_url(url) ==
    IF url = UrlX
    THEN [BasePage EXCEPT !.content = Text(3, 0, 0)]
    ELSE [url |-> url, title |-> <<>>, meta_description |-> <<>>,
          headings |-> [h1 |-> <<>>, h2 |-> <<>>, h3 |-> <<>>],
          content |-> Text(1, 1, 1), links |-> <<Link(UrlY)>>, images |-> <<Image(<<>>)>>]

\* what run_lighthouse_audit returns when it returns
AuditResults == {GoodScores, BadScores}

RequestBodies == {[url |-> u, keywords |-> k] : u \in {UrlX, UrlY}, k \in {None, Some(<<Str_seo>>)}}

\* analyze_content(await scrape_url(request.url), request.keywords), for
\* every request body: computed once, looked up by the handlers
AnalysisResults ==
    [req \in RequestBodies |-> analyze_content(scrape_url(req.url), req.keywords)]

\* generate_recommendations(analysis_results, lighthouse_results), for every
\* request body and every audit result
Recommendations ==
    [req \in RequestBodies |->
        [lh \in AuditResults |-> generate_recommendations(AnalysisResults[req], lh)]]

\* json.dump(task_data, f) on data/task_<task_id>.json opened with "w"
Save(fs, task_id, task_data) == [fs EXCEPT ![task_id] = Some(task_data)]

\* raise HTTPException(status_code=500, ...)
Raise500(h) == [h EXCEPT !.pc = "responded", !.status_code = 500]

\* the client posts; analyze_url runs to its first await: the task ID, the
\* initial record, the save of the initial record
Post(r) ==
    /\ client[r].pc = "start"
    /\ handler[r].pc = "idle"
    /\ \E req \in RequestBodies :
        LET task_id == TaskId(now)
            task_data == [status |-> "in_progress", url |-> req.url,
                          keywords |-> req.keywords, results |-> None]
        IN  /\ files' = Save(files, task_id, task_data)
            /\ handler' = [handler EXCEPT ![r] =
                    [pc |-> "scrape_url", request |-> Some(req), task_id |-> Some(task_id),
                     task_data |-> Some(task_data), analysis_results |-> None,
                     status_code |-> 0]]
    /\ client' = [client EXCEPT ![r].pc = "posted"]
    /\ UNCHANGED <<now, pureVars>>

\* scrape_url returns; analyze_content runs; the handler awaits the audit
ScrapeReturns(r) ==
    /\ handler[r].pc = "scrape_url"
    /\ handler' = [handler EXCEPT
            ![r].pc = "run_lighthouse_audit",
            ![r].analysis_results = Some(AnalysisResults[handler[r].request[1]])]
    /\ UNCHANGED <<now, files, client, pureVars>>

\* scrape_url raises (the fetch fails, raise_for_status): except, HTTP 500
ScrapeRaises(r) ==
    /\ handler[r].pc = "scrape_url"
    /\ handler' = [handler EXCEPT ![r] = Raise500(@)]
    /\ UNCHANGED <<now, files, client, pureVars>>

\* run_lighthouse_audit returns; generate_recommendations runs; the task
\* record is updated and saved; the response is returned
AuditReturns(r) ==
    /\ handler[r].pc = "run_lighthouse_audit"
    /\ \E lighthouse_results \in AuditResults :
        LET analysis_results == handler[r].analysis_results[1]
            recs == Recommendations[handler[r].request[1]][lighthouse_results]
            task_data == [handler[r].task_data[1] EXCEPT
                            !.status = "completed",
                            !.results = Some([analysis |-> analysis_results,
                                              lighthouse |-> lighthouse_results,
                                              recommendations |-> recs])]
        IN  /\ files' = Save(files, handler[r].task_id[1], task_data)
            /\ handler' = [handler EXCEPT ![r].pc = "responded",
                                          ![r].task_data = Some(task_data),
                                          ![r].status_code = 200]
    /\ UNCHANGED <<now, client, pureVars>>

\* run_lighthouse_audit raises: except, HTTP 500
AuditRaises(r) ==
    /\ handler[r].pc = "run_lighthouse_audit"
    /\ handler' = [handler EXCEPT ![r] = Raise500(@)]
    /\ UNCHANGED <<now, files, client, pureVars>>

\* GET /status/{task_id}: the response of get_task_status
get_task_status(task_id) ==
    IF files[task_id] = None
    THEN [status_code |-> 404, status |-> "", results |-> None]
    ELSE [status_code |-> 200, status |-> files[task_id][1].status,
          results |-> files[task_id][1].results]

\* the client reads the response of its POST: task_id from a 200, raise otherwise
Response(r) ==
    /\ client[r].pc = "posted"
    /\ handler[r].pc = "responded"
    /\ client' = [client EXCEPT ![r] =
            IF handler[r].status_code = 200
            THEN [@ EXCEPT !.pc = "poll", !.task_id = handler[r].task_id]
            ELSE [@ EXCEPT !.pc = "raised"]]
    /\ UNCHANGED <<now, files, handler, pureVars>>

\* one turn of the while True loop: GET /status, return on "completed",
\* time.sleep(1) otherwise (a response with no "status" key raises KeyError)
Poll(r) ==
    /\ client[r].pc = "poll"
    /\ LET status_data == get_task_status(client[r].task_id[1])
       IN  client' = [client EXCEPT ![r] =
                IF status_data.status_code # 200 THEN [@ EXCEPT !.pc = "raised"]
                ELSE IF status_data.status = "completed"
                THEN [@ EXCEPT !.pc = "returned", !.results = status_data.results]
                ELSE [@ EXCEPT !.pc = "sleep"]]
    /\ UNCHANGED <<now, files, handler, pureVars>>

\* time.sleep(1) returns
Wake(r) ==
    /\ client[r].pc = "sleep"
    /\ client' = [client EXCEPT ![r].pc = "poll"]
    /\ UNCHANGED <<now, files, handler, pureVars>>

\* the wall clock advances
Tick ==
    /\ now < MaxClock
    /\ now' = now + 1
    /\ UNCHANGED <<files, handler, client, pureVars>>

InitServer ==
    /\ phase = "server"
    /\ content = None
    /\ keywords = None
    /\ lighthouse = None
    /\ analysis = NoAnalysis
    /\ recommendations = EmptyRecommendations
    /\ ServerIdle

HandlerStep(r) == ScrapeReturns(r) \/ ScrapeRaises(r) \/ AuditReturns(r) \/ AuditRaises(r)

ClientStep(r) == Response(r) \/ Poll(r) \/ Wake(r)

NextServer ==
    \/ Tick
    \/ \E r \in Requests : Post(r)
    \/ \E r \in Requests : ScrapeReturns(r)
    \/ \E r \in Requests : ScrapeRaises(r)
    \/ \E r \in Requests : AuditReturns(r)
    \/ \E r \in Requests : AuditRaises(r)
    \/ \E r \in Requests : Response(r)
    \/ \E r \in Requests : Poll(r)
    \/ \E r \in Requests : Wake(r)

SpecServer == InitServer /\ [][NextServer]_vars

\* Every awaited call returns or raises, and a running client coroutine
\* takes its next step.
FairSpecServer ==
    /\ SpecServer
    /\ \A r \in Requests : WF_vars(HandlerStep(r)) /\ WF_vars(ClientStep(r))

------------------------------------------------------------------------------
(* Properties of generate_recommendations and analyze_content (Spec) *)

Buckets == {"critical", "important", "minor"}

\* the messages of all buckets, each with its bucket and its position
Emitted(recs) ==
    UNION {{[bucket |-> b, pos |-> i, msg |-> recs[b][i]] : i \in DOMAIN recs[b]} : b \in Buckets}

\* how many messages of recs carry one of the templates of T
Emissions(recs, T) == Cardinality({e \in Emitted(recs) : e.msg.template \in T})

InBucket(recs, b, m) == \E i \in DOMAIN recs[b] : recs[b][i] = m

T_AddTitle == "Add a title tag to your page"
T_AdjustTitle == "Adjust title length to be between 50-60 characters for optimal display in search results"
T_AddMeta == "Add a meta description to your page"
T_AdjustMeta == "Adjust meta description length to be between 150-160 characters for optimal display"
T_AddH1 == "Add an H1 heading to your page"
T_OneH1 == "Use only one H1 heading per page"
T_Content == "Add more content to your page (aim for at least 300 words)"
T_Include == "Include the keyword '{keyword}' in your title, meta description, or headings"
T_Increase == "Consider increasing the usage of keyword '{keyword}' (current density: {density}%)"
T_Reduce == "Reduce the usage of keyword '{keyword}' to avoid keyword stuffing (current density: {density}%)"
T_Alt == "Add alt text to {missing_alt_count} images"
T_Internal == "Add internal links to improve site navigation"
T_External == "Consider adding relevant external links"
T_Improve == "Improve page performance (current score: {:.0f}/100)"
T_Consider == "Consider optimizing page performance (current score: {:.0f}/100)"
T_Seo == "Address technical SEO issues (current score: {:.0f}/100)"
T_Accessibility == "Improve accessibility (current score: {:.0f}/100)"

KeywordTemplates == {T_Include, T_Increase, T_Reduce}

PairedRules ==
    {{T_AddTitle, T_AdjustTitle}, {T_AddMeta, T_AdjustMeta}, {T_AddH1, T_OneH1},
     {T_Improve, T_Consider}}

\* C1: one call of generate_recommendations emits at most one message of
\* each paired rule (title, meta description, H1, performance): never both
\* messages of a pair, in whatever buckets.
C1_PairedRulesExclusive ==
    phase = "done" =>
        \A pair \in PairedRules : Emissions(recommendations, pair) <= 1

\* a call in which three paired rules fired with their second message and
\* one with its first
C1_Witness ==
    /\ phase = "done"
    /\ InBucket(recommendations, "important", Plain(T_AdjustTitle))
    /\ InBucket(recommendations, "critical", Plain(T_AddMeta))
    /\ InBucket(recommendations, "important", Plain(T_OneH1))
    /\ Emissions(recommendations, {T_Consider}) = 1

\* C2: with p the performance score, the critical bucket holds "Improve page
\* performance (current score: p/100)" iff p < 90, the important bucket holds
\* "Consider optimizing page performance (current score: p/100)" iff
\* 90 <= p < 95, and no performance message is emitted iff p >= 95; the
\* message shows p as "{:.0f}" prints it.
C2_PerformanceThresholds ==
    phase = "done" =>
        LET p == lighthouse.performance
            shown == Format0f(p)
        IN  /\ InBucket(recommendations, "critical", Msg(T_Improve, <<>>, shown)) <=> p < Score(90, 0)
            /\ InBucket(recommendations, "important", Msg(T_Consider, <<>>, shown))
                    <=> (Score(90, 0) <= p /\ p < Score(95, 0))
            /\ Emissions(recommendations, {T_Improve, T_Consider}) = 0 <=> p >= Score(95, 0)
            /\ Emissions(recommendations, {T_Improve, T_Consider}) <= 1

\* the score 94.9: the important message, showing 95
C2_Witness ==
    /\ phase = "done"
    /\ lighthouse.performance = Score(94, 9)
    /\ InBucket(recommendations, "important", Msg(T_Consider, <<>>, 95))

\* C3: title.optimal_length is true iff the title is non-empty and its length
\* is in 50..60; meta_description.optimal_length is true iff the meta
\* description is non-empty and its length is in 150..160.
C3_OptimalLength ==
    phase \in {"analysed", "done"} =>
        /\ analysis.title.optimal_length
            <=> (content.title # <<>> /\ Len(content.title) \in 50..60)
        /\ analysis.meta_description.optimal_length
            <=> (content.meta_description # <<>> /\ Len(content.meta_description) \in 150..160)

\* a title of exactly 50 characters with a meta description of exactly 160
C3_Witness ==
    /\ phase = "analysed"
    /\ Len(content.title) = 50
    /\ Len(content.meta_description) = 160
    /\ analysis.title.optimal_length
    /\ analysis.meta_description.optimal_length

\* C4: for every keyword of the analysis the density message depends on the
\* density alone: the minor "Consider increasing" message is emitted iff
\* density < 0.5, the important "Reduce" message iff density > 3, whether or
\* not the "Include the keyword" message was emitted for that keyword.
C4_DensityAlone ==
    phase = "done" /\ "keywords" \in DOMAIN analysis =>
        \A i \in DOMAIN analysis.keywords :
            LET k == analysis.keywords[i].keyword
                d == analysis.keywords[i].data.density
            IN  /\ InBucket(recommendations, "minor", Msg(T_Increase, k, d)) <=> d < 50
                /\ InBucket(recommendations, "important", Msg(T_Reduce, k, d)) <=> d > 300
                /\ \A e \in Emitted(recommendations) :
                        e.msg.template \in {T_Increase, T_Reduce} /\ e.msg.keyword = k
                            => e.msg = Msg(e.msg.template, k, d) /\ (d < 50 \/ d > 300)

\* a keyword absent from title, meta description and headings, so that its
\* "Include" message is emitted, with density exactly 0.5: no density message;
\* and one with density exactly 3
C4_Witness ==
    /\ phase = "done"
    /\ "keywords" \in DOMAIN analysis
    /\ \E i \in DOMAIN analysis.keywords :
        /\ analysis.keywords[i].data.density = 50
        /\ InBucket(recommendations, "important", Msg(T_Include, analysis.keywords[i].keyword, 0))
        /\ \A e \in Emitted(recommendations) :
                e.msg.keyword = analysis.keywords[i].keyword => e.msg.template = T_Include

\* C5: analyze_content followed by generate_recommendations emits no keyword
\* message when the keywords are None or [], and otherwise names in keyword
\* messages only supplied keywords, in their original casing.
C5_OnlySuppliedKeywords ==
    phase = "done" =>
        \A e \in Emitted(recommendations) :
            e.msg.template \in KeywordTemplates =>
                /\ keywords # None
                /\ e.msg.keyword \in Range(keywords[1])

\* the keyword "SEO" was supplied without "seo", and a message names it
C5_Witness ==
    /\ phase = "done"
    /\ keywords # None
    /\ Str_SEO \in Range(keywords[1])
    /\ Str_seo \notin Range(keywords[1])
    /\ \E e \in Emitted(recommendations) :
            e.msg.template \in KeywordTemplates /\ e.msg.keyword = Str_SEO

\* the row of the rule table that produces a template
RuleIndex(t) ==
    CASE t = T_AddTitle -> 1 [] t = T_AdjustTitle -> 2 [] t = T_AddMeta -> 3
      [] t = T_AdjustMeta -> 4 [] t = T_AddH1 -> 5 [] t = T_OneH1 -> 6
      [] t = T_Content -> 7 [] t = T_Include -> 8 [] t = T_Increase -> 9
      [] t = T_Reduce -> 10 [] t = T_Alt -> 11 [] t = T_Internal -> 12
      [] t = T_External -> 13 [] t = T_Improve -> 14 [] t = T_Consider -> 14
      [] t = T_Seo -> 15 [] t = T_Accessibility -> 16

\* C6 as claimed: within each bucket the messages are in rule-table order,
\* the three keyword rules included.
C6_RuleTableOrder ==
    phase = "done" =>
        \A b \in Buckets : \A i, j \in DOMAIN recommendations[b] :
            i < j => RuleIndex(recommendations[b][i].template)
                        <= RuleIndex(recommendations[b][j].template)

\* the place of a keyword among the items of analysis["keywords"]
KeywordIndex(k) ==
    IF "keywords" \in DOMAIN analysis /\ \E i \in DOMAIN analysis.keywords : analysis.keywords[i].keyword = k
    THEN CHOOSE i \in DOMAIN analysis.keywords : analysis.keywords[i].keyword = k
    ELSE 0

\* the order in which the code emits: the keyword rules are one block, run
\* keyword by keyword, the absence check before the density check
EmitOrder(m) ==
    IF m.template \in KeywordTemplates
    THEN <<8, KeywordIndex(m.keyword), IF m.template = T_Include THEN 1 ELSE 2>>
    ELSE <<RuleIndex(m.template), 0, 0>>

Before(x, y) ==
    \/ x[1] < y[1]
    \/ x[1] = y[1] /\ x[2] < y[2]
    \/ x[1] = y[1] /\ x[2] = y[2] /\ x[3] < y[3]

\* C6 amended: within each bucket the messages are in rule-table order,
\* except that the three keyword rules form one block that is run keyword by
\* keyword: every message of an earlier keyword precedes every message of a
\* later keyword, and for one keyword the "Include" message precedes the
\* density message.
C6_EmitOrder ==
    phase = "done" =>
        \A b \in Buckets : \A i, j \in DOMAIN recommendations[b] :
            i < j => Before(EmitOrder(recommendations[b][i]), EmitOrder(recommendations[b][j]))

\* two keywords: the "Reduce" message of the first precedes the "Include"
\* message of the second in the important bucket, between a title message
\* and the alt-text message
C6_Witness ==
    /\ phase = "done"
    /\ \E i, j, k, l \in DOMAIN recommendations.important :
        /\ i < j /\ j < k /\ k < l
        /\ recommendations.important[i].template = T_AdjustTitle
        /\ recommendations.important[j].template = T_Reduce
        /\ recommendations.important[k].template = T_Include
        /\ recommendations.important[l].template = T_Alt

\* C7: total_count is the number of link entries, internal_count the number
\* of entries whose href starts with "/" or with the page url, external_count
\* the number of entries whose href starts with "http"; entries are counted
\* one by one, repeats included, so both counts are at most total_count, an
\* entry matching neither test is in neither count, and an entry starting
\* with an http page url is in both.
C7_LinkCounts ==
    phase \in {"analysed", "done"} =>
        LET n == Len(content.links)
            href(i) == content.links[i].href
            begins(h, p) == Len(h) >= Len(p) /\ SubSeq(h, 1, Len(p)) = p
            internal == {i \in 1..n : begins(href(i), <<"/">>) \/ begins(href(i), content.url)}
            external == {i \in 1..n : begins(href(i), <<"h","t","t","p">>)}
        IN  /\ analysis.links.total_count = n
            /\ analysis.links.internal_count = Cardinality(internal)
            /\ analysis.links.external_count = Cardinality(external)
            /\ analysis.links.internal_count <= n
            /\ analysis.links.external_count <= n

\* the same href twice, under the page url: both entries counted, in both
\* counts; and a list with an entry counted in neither
C7_Witness ==
    /\ phase = "analysed"
    /\ Len(content.links) = 2
    /\ content.links[1] = content.links[2]
    /\ startswith(content.links[1].href, content.url)
    /\ analysis.links.internal_count = 2
    /\ analysis.links.external_count = 2

------------------------------------------------------------------------------
(* Properties of the /analyze and /status handlers (SpecServer) *)

\* C8: any two requests obtain different task IDs.
C8_DistinctTaskIds ==
    \A r1, r2 \in Requests :
        r1 # r2 /\ handler[r1].task_id # None /\ handler[r2].task_id # None
            => handler[r1].task_id # handler[r2].task_id

\* C9: a client that got 200 from POST /analyze and polls GET /status
\* eventually reads "completed" and returns.
C9_PollingTerminates ==
    \A r \in Requests : (client[r].pc = "poll") ~> (client[r].pc = "returned")

\* C10: after a request was answered 500 its task record stays "in_progress"
\* with empty results, and a "completed" record carries the analysis, the
\* audit scores and the recommendations of one successful run.
C10_FailedStaysInProgress ==
    /\ \A r \in Requests :
        handler[r].status_code = 500 =>
            LET rec == files[handler[r].task_id[1]][1]
            IN  rec.status = "in_progress" /\ rec.results = None
    /\ \A t \in TaskIds :
        files[t] # None /\ files[t][1].status = "completed" =>
            LET rec == files[t][1]
                res == rec.results[1]
            IN  /\ res.analysis = analyze_content(scrape_url(rec.url), rec.keywords)
                /\ res.lighthouse \in AuditResults
                /\ res.recommendations = generate_recommendations(res.analysis, res.lighthouse)

====
